---- MODULE Spec2Model ----
(***************************************************************************)
(* A model of smexperiments.trial_component.TrialComponent: the save and   *)
(* delete operations of one TrialComponent object, step by step, together  *)
(* with the remote SageMaker client they call.                             *)
(*                                                                         *)
(* Every remote call, and every time.sleep, is one step of the model and   *)
(* is appended to the history variable calls, so that the order and the    *)
(* number of calls can be stated.                                          *)
(*                                                                         *)
(* Values.  A trial name is a number 1..NumTrials.  A continuation token   *)
(* is a natural number; 0 stands for a token that Python treats as false   *)
(* (the empty string), every other number for a non-empty token.  An       *)
(* optional value (next_token = None, a response without "NextToken") is   *)
(* a sequence of length 0 or 1.                                            *)
(***************************************************************************)
EXTENDS Integers, Sequences, FiniteSets, TLC

\* ------------------------------------------------------------- bounds
NumTrials == 2       \* trial names 1..NumTrials
MaxLists == 3        \* list_trials calls a scripted client answers
MaxEntries == 3      \* trial summaries a scripted client returns in one run
MaxPageSize == 2     \* page size of the live services
MaxSet == 2          \* attributes set locally after construction
MaxSaves == 1        \* save() calls in one run

Trials == 1..NumTrials
Tokens == {0, 1, 2}
Errors == {"ThrottlingException", "ResourceNotFound"}
Services == {"scripted", "offset", "cursor"}

\* ------------------------------------------------- the class attributes

\* self.trial_component_name of the object under test
SelfName == "job-123"

\* The attributes the class declares.
Fields ==
    {"trial_component_name", "trial_component_arn", "display_name", "source",
     "status", "start_time", "end_time", "creation_time", "created_by",
     "last_modified_time", "last_modified_by", "parameters", "input_artifacts",
     "output_artifacts", "metrics", "parameters_to_remove",
     "input_artifacts_to_remove", "output_artifacts_to_remove", "tags"}

_boto_update_members_WithTags ==
    {"trial_component_name", "display_name", "status", "start_time", "end_time",
     "parameters", "input_artifacts", "output_artifacts", "parameters_to_remove",
     "input_artifacts_to_remove", "output_artifacts_to_remove", "tags"}

_boto_update_members ==
    {"trial_component_name", "display_name", "status", "start_time", "end_time",
     "parameters", "input_artifacts", "output_artifacts", "parameters_to_remove",
     "input_artifacts_to_remove", "output_artifacts_to_remove"}

_boto_delete_members == {"trial_component_name"}

\* time.sleep(1.2), in tenths of a second
SleepTenths == 12

VARIABLES
    pc,           \* where the object's caller is: "idle", inside delete, "done", "raised"
    force,        \* delete's argument force_disassociate: "None", "False" or "True"
    next_token,   \* delete's local next_token (optional token)
    resp,         \* delete's local list_trials_response
    i,            \* position of the for loop in resp.TrialSummaries
    raised,       \* the exception that left the operation, "none" if none
    attrs,        \* vars(self): the attributes set on the instance
    calls,        \* history: every remote call and sleep, in order
    service,      \* which remote client answers
    pageSize,     \* page size of a live service
    assoc,        \* remote: trials associated with the component
    assoc0,       \* history: assoc when the object was constructed
    exists        \* remote: the component exists

vars == <<pc, force, next_token, resp, i, raised, attrs, calls,
          service, pageSize, assoc, assoc0, exists>>

\* ------------------------------------------------------------ helpers

None == <<>>
Some(x) == <<x>>

\* Python truthiness of next_token: None and the empty token are false.
Truthy(tok) == tok # None /\ tok[1] # 0

\* "if force_disassociate is not False" in place of "if force_disassociate"
TruthyArg_NotFalse(f) == f # "False"

\* Python truthiness of the argument force_disassociate.
TruthyArg(f) == f = "True"

\* "if list_trials_response.get('NextToken')" in place of the key test
HasNextToken_Truthy(r) == Truthy(r.NextToken)

\* "NextToken" in list_trials_response
HasNextToken(r) == r.NextToken # None

NoResp == [TrialSummaries |-> <<>>, NextToken |-> None]

\* One entry of the history.
Ev(op) == [op |-> op, name |-> "", token |-> None, trial |-> 0, payload |-> {},
           self |-> {}, secs |-> 0, err |-> "none", resp |-> NoResp]

RECURSIVE SortedSeq(_)
SortedSeq(S) ==
    IF S = {} THEN <<>>
    ELSE LET m == CHOOSE x \in S : \A y \in S : x <= y
         IN <<m>> \o SortedSeq(S \ {m})

Min(a, b) == IF a <= b THEN a ELSE b

Take(s, n) == SubSeq(s, 1, Min(n, Len(s)))

RECURSIVE SumLens(_)
\* Trial summaries returned by the list_trials calls of a history.
SumLens(h) ==
    IF h = <<>> THEN 0
    ELSE (IF Head(h).op = "list_trials" /\ Head(h).err = "none"
            THEN Len(Head(h).resp.TrialSummaries) ELSE 0) + SumLens(Tail(h))

Count(h, op) == Cardinality({k \in 1..Len(h) : h[k].op = op})

SeqsUpTo(S, n) == UNION {[1..m -> S] : m \in 0..n}

\* ------------------------------------------------- the remote service

\* The answers of sagemaker_boto_client.list_trials to a call carrying the
\* optional NextToken tok, when it does not raise.
\*   scripted: a test double; any page, any token, for MaxLists calls
\*   offset:   the page is cut from the current associations, in name order,
\*             at the position the token names
\*   cursor:   the page is cut from the current associations, in name order,
\*             after the trial name the token names
ListResponses(tok) ==
    CASE service = "scripted" ->
           {[TrialSummaries |-> p, NextToken |-> t] :
              p \in SeqsUpTo(Trials, MaxEntries - SumLens(calls)),
              t \in IF Count(calls, "list_trials") + 1 >= MaxLists
                      THEN {None}
                      ELSE {None} \cup {Some(k) : k \in Tokens}}
      [] service = "offset" ->
           LET start == IF tok = None THEN 0 ELSE tok[1]
               all == SortedSeq(assoc)
               rest == SubSeq(all, start + 1, Len(all))
           IN {[TrialSummaries |-> Take(rest, pageSize),
                NextToken |-> IF Len(rest) > pageSize
                                THEN Some(start + pageSize) ELSE None]}
      [] service = "cursor" ->
           LET after == IF tok = None THEN 0 ELSE tok[1]
               rest == SortedSeq({t \in assoc : t > after})
               page == Take(rest, pageSize)
           IN {[TrialSummaries |-> page,
                NextToken |-> IF Len(rest) > pageSize
                                THEN Some(page[Len(page)]) ELSE None]}

\* The remote call raises e: the exception leaves the operation.
Raise(ev, e) ==
    /\ calls' = Append(calls, [ev EXCEPT !.err = e])
    /\ raised' = e
    /\ pc' = "raised"

\* --------------------------------------------------------- Record base

\* _invoke_api's request: the instance attributes among the members given.
ApiValues(members) == attrs \cap members

\* self._invoke_api(boto_method, boto_method_members); after is the position
\* of the caller once the call has returned.
InvokeApi(boto_method, members, after) ==
    LET ev == [Ev(boto_method) EXCEPT !.payload = ApiValues(members),
                                      !.self = attrs]
    IN \/ \E e \in Errors :
            /\ Raise(ev, e)
            /\ UNCHANGED exists
       \/ /\ calls' = Append(calls, ev)
          /\ pc' = after
          /\ exists' = IF boto_method = "delete_trial_component" THEN FALSE ELSE exists
          /\ UNCHANGED raised

\* ------------------------------------------------------- TrialComponent

\* An attribute is assigned on the instance (tc.tags = ..., tc.status = ...).
SetAttr(f) ==
    /\ pc = "idle"
    /\ f \notin attrs
    /\ Cardinality(attrs) <= MaxSet
    /\ attrs' = attrs \cup {f}
    /\ UNCHANGED <<pc, force, next_token, resp, i, raised, calls,
                   service, pageSize, assoc, assoc0, exists>>

\* save()
Save ==
    /\ pc = "idle"
    /\ Count(calls, "update_trial_component") < MaxSaves
    /\ InvokeApi("update_trial_component", _boto_update_members, "idle")
    /\ UNCHANGED <<force, next_token, resp, i, attrs,
                   service, pageSize, assoc, assoc0>>

\* delete(force_disassociate=f): entry, up to the first remote call
Delete(f) ==
    /\ pc = "idle"
    /\ force' = f
    /\ IF TruthyArg(f)
         THEN /\ next_token' = None
              /\ pc' = "list"
         ELSE /\ pc' = "delete"
              /\ UNCHANGED next_token
    /\ UNCHANGED <<resp, i, raised, attrs, calls,
                   service, pageSize, assoc, assoc0, exists>>

\* the list_trials call at the head of the while loop
ListTrials ==
    /\ pc = "list"
    /\ LET arg == IF Truthy(next_token) THEN next_token ELSE None
           ev == [Ev("list_trials") EXCEPT !.name = SelfName, !.token = arg]
       IN \/ \E e \in Errors :
               /\ Raise(ev, e)
               /\ UNCHANGED <<resp, i>>
          \/ \E r \in ListResponses(arg) :
               /\ calls' = Append(calls, [ev EXCEPT !.resp = r])
               /\ resp' = r
               /\ i' = 1
               /\ pc' = "for"
               /\ UNCHANGED raised
    /\ UNCHANGED <<force, next_token, attrs,
                   service, pageSize, assoc, assoc0, exists>>

\* the sleep moved out of the for loop: one delay for each page
Sleep_OncePerPage ==
    /\ pc = "for"
    /\ i <= Len(resp.TrialSummaries)
    /\ calls' = IF i = 1
                  THEN Append(calls, [Ev("sleep") EXCEPT !.secs = SleepTenths])
                  ELSE calls
    /\ pc' = "disassociate"
    /\ UNCHANGED <<force, next_token, resp, i, raised, attrs,
                   service, pageSize, assoc, assoc0, exists>>

\* time.sleep(1.2) for the next per_trial of the page
Sleep ==
    /\ pc = "for"
    /\ i <= Len(resp.TrialSummaries)
    /\ calls' = Append(calls, [Ev("sleep") EXCEPT !.secs = SleepTenths])
    /\ pc' = "disassociate"
    /\ UNCHANGED <<force, next_token, resp, i, raised, attrs,
                   service, pageSize, assoc, assoc0, exists>>

\* the call wrapped in "try: ... except ClientError: pass"
Disassociate_Swallow ==
    /\ pc = "disassociate"
    /\ LET t == resp.TrialSummaries[i]
           ev == [Ev("disassociate_trial_component") EXCEPT
                    !.name = SelfName, !.trial = t]
       IN \/ \E e \in Errors :
               /\ calls' = Append(calls, [ev EXCEPT !.err = e])
               /\ UNCHANGED assoc
          \/ /\ calls' = Append(calls, ev)
             /\ assoc' = assoc \ {t}
    /\ i' = i + 1
    /\ pc' = "for"
    /\ UNCHANGED <<force, next_token, resp, raised, attrs,
                   service, pageSize, assoc0, exists>>

\* a "break" at the end of the for body: one trial of each page
Disassociate_FirstOnly ==
    /\ pc = "disassociate"
    /\ LET t == resp.TrialSummaries[i]
           ev == [Ev("disassociate_trial_component") EXCEPT
                    !.name = SelfName, !.trial = t]
       IN \/ \E e \in Errors :
               /\ Raise(ev, e)
               /\ UNCHANGED <<i, assoc>>
          \/ /\ calls' = Append(calls, ev)
             /\ assoc' = assoc \ {t}
             /\ i' = Len(resp.TrialSummaries) + 1
             /\ pc' = "for"
             /\ UNCHANGED raised
    /\ UNCHANGED <<force, next_token, resp, attrs,
                   service, pageSize, assoc0, exists>>

\* the disassociate_trial_component call for per_trial
Disassociate ==
    /\ pc = "disassociate"
    /\ LET t == resp.TrialSummaries[i]
           ev == [Ev("disassociate_trial_component") EXCEPT
                    !.name = SelfName, !.trial = t]
       IN \/ \E e \in Errors :
               /\ Raise(ev, e)
               /\ UNCHANGED <<i, assoc>>
          \/ /\ calls' = Append(calls, ev)
             /\ assoc' = assoc \ {t}
             /\ i' = i + 1
             /\ pc' = "for"
             /\ UNCHANGED raised
    /\ UNCHANGED <<force, next_token, resp, attrs,
                   service, pageSize, assoc0, exists>>

\* the end of the for loop: follow the token or leave the while loop
PageDone ==
    /\ pc = "for"
    /\ i > Len(resp.TrialSummaries)
    /\ IF HasNextToken(resp)
         THEN /\ next_token' = resp.NextToken
              /\ pc' = "list"
         ELSE /\ pc' = "delete"
              /\ UNCHANGED next_token
    /\ UNCHANGED <<force, resp, i, raised, attrs, calls,
                   service, pageSize, assoc, assoc0, exists>>

\* the delete request issued a second time once the first has returned
DeleteRequest_Twice ==
    /\ pc = "delete"
    /\ InvokeApi("delete_trial_component", _boto_delete_members,
                 IF Count(calls, "delete_trial_component") = 0
                   THEN "delete" ELSE "done")
    /\ UNCHANGED <<force, next_token, resp, i, attrs,
                   service, pageSize, assoc, assoc0>>

\* return self._invoke_api(self._boto_delete_method, self._boto_delete_members)
DeleteRequest ==
    /\ pc = "delete"
    /\ InvokeApi("delete_trial_component", _boto_delete_members, "done")
    /\ UNCHANGED <<force, next_token, resp, i, attrs,
                   service, pageSize, assoc, assoc0>>

\* ------------------------------------------------------ specifications

InitObject ==
    /\ pc = "idle"
    /\ force = "None"
    /\ next_token = None
    /\ resp = NoResp
    /\ i = 1
    /\ raised = "none"
    /\ attrs = {"trial_component_name"}
    /\ calls = <<>>
    /\ exists = TRUE

\* The delete operation against each remote client.
Init ==
    /\ InitObject
    /\ service \in Services
    /\ pageSize \in IF service = "scripted" THEN {1} ELSE 1..MaxPageSize
    /\ assoc \in IF service = "scripted" THEN {Trials} ELSE SUBSET Trials
    /\ assoc0 = assoc

Next ==
    \/ \E f \in {"None", "False", "True"} : Delete(f)
    \/ ListTrials
    \/ Sleep
    \/ Disassociate
    \/ PageDone
    \/ DeleteRequest

Spec == Init /\ [][Next]_vars

\* Attribute assignment, save and delete of a component in at most one trial.
InitSave ==
    /\ InitObject
    /\ service = "cursor"
    /\ pageSize = 1
    /\ assoc \in SUBSET {1}
    /\ assoc0 = assoc

NextSave ==
    \/ \E f \in Fields : SetAttr(f)
    \/ Save
    \/ Next

SpecSave == InitSave /\ [][NextSave]_vars

\* ------------------------------------------------------------- claims

Idx(op) == {k \in 1..Len(calls) : calls[k].op = op}
ListIdx == Idx("list_trials")
DisIdx == Idx("disassociate_trial_component")
DelIdx == Idx("delete_trial_component")
SleepIdx == Idx("sleep")
Forced == force = "True"

\* The trial names the list_trials responses of the run returned.
ReturnedTrials ==
    UNION {{calls[k].resp.TrialSummaries[j] :
              j \in 1..Len(calls[k].resp.TrialSummaries)} : k \in ListIdx}

\* The trials whose disassociate request returned.
Disassociated == {calls[k].trial : k \in {d \in DisIdx : calls[d].err = "none"}}

\* C1: a delete whose force_disassociate is None or False issues no
\* list_trials call, no disassociate call and no delay, and exactly one
\* delete request, whatever trials are associated.
C1_NoListingUnlessForced ==
    (force \in {"None", "False"} /\ pc # "idle") =>
        /\ ListIdx = {}
        /\ DisIdx = {}
        /\ SleepIdx = {}
        /\ Cardinality(DelIdx) = IF pc = "delete" THEN 0 ELSE 1

C1_Witness ==
    /\ pc = "done"
    /\ force = "None"
    /\ assoc # {}
    /\ Len(calls) = 1

\* C2 as claimed: a forced delete that completes issues as many disassociate
\* calls as there are distinct trials in the pages returned.
C2_DisassociatesDistinctTrials ==
    (Forced /\ pc = "done") =>
        Cardinality(DisIdx) = Cardinality(ReturnedTrials)

\* C2 amended: a forced delete that completes issues as many disassociate
\* calls as trial summaries were returned across all pages, a trial name
\* returned twice counting twice.
C2_DisassociatesEverySummary ==
    (Forced /\ pc = "done") =>
        Cardinality(DisIdx) = SumLens(calls)

C2_Witness ==
    /\ Forced
    /\ pc = "done"
    /\ SumLens(calls) = 3
    /\ Cardinality(ReturnedTrials) = 2
    /\ \E k \in ListIdx : calls[k].resp.TrialSummaries = <<>>

\* C3: the listing loop issues another list_trials call after every
\* response that carries a continuation token and none after the first
\* response without one.
C3_StopsAtFirstTokenlessPage ==
    /\ \A k \in ListIdx : \A m \in ListIdx :
          k < m => (calls[k].err = "none" /\ calls[k].resp.NextToken # None)
    /\ \A k \in ListIdx :
          (/\ calls[k].err = "none"
           /\ calls[k].resp.NextToken # None
           /\ \A m \in ListIdx : m <= k)
          => /\ pc \in {"for", "disassociate", "list", "raised"}
             /\ DelIdx = {}
             /\ pc = "raised" => calls[Len(calls)].op = "disassociate_trial_component"
    /\ (pc = "list" /\ ListIdx # {}) =>
          \E k \in ListIdx :
             /\ \A m \in ListIdx : m <= k
             /\ calls[k].resp.NextToken # None

C3_Witness ==
    /\ pc = "done"
    /\ Cardinality(ListIdx) = 3
    /\ \E k \in ListIdx : calls[k].resp.NextToken = Some(0)
    /\ \E k \in ListIdx : calls[k].resp.NextToken = Some(2)

C5_ErrorStopsDelete ==
    /\ \A k \in 1..Len(calls) :
          calls[k].err # "none" => (k = Len(calls) /\ pc = "raised")
    /\ (/\ pc = "raised"
        /\ calls[Len(calls)].op \in {"list_trials", "disassociate_trial_component"})
       => /\ raised = calls[Len(calls)].err
          /\ raised \in Errors
          /\ DelIdx = {}
          /\ exists
          /\ assoc = assoc0 \ Disassociated

C5_Witness ==
    /\ pc = "raised"
    /\ raised = "ThrottlingException"
    /\ calls[Len(calls)].op = "disassociate_trial_component"
    /\ Cardinality(DisIdx) = 2
    /\ assoc # {}
    /\ assoc # assoc0

\* C6: every disassociate call is immediately preceded by one delay of the
\* fixed length, every delay is immediately followed by a disassociate call
\* (none before list_trials or the delete request), and there are as many
\* delays as disassociate calls attempted.
C6_DelayBeforeEachDisassociate ==
    /\ \A k \in DisIdx : k > 1 /\ calls[k - 1].op = "sleep"
    /\ \A k \in SleepIdx :
          /\ calls[k].secs = SleepTenths
          /\ IF k = Len(calls)
               THEN pc = "disassociate"
               ELSE calls[k + 1].op = "disassociate_trial_component"
    /\ Cardinality(SleepIdx) =
          Cardinality(DisIdx) + (IF pc = "disassociate" THEN 1 ELSE 0)

C6_Witness ==
    /\ pc = "delete"
    /\ Cardinality(SleepIdx) = 3
    /\ Cardinality(DisIdx) = 3
    /\ \E k \in ListIdx : Len(calls[k].resp.TrialSummaries) = 2

\* C7 as claimed: when a forced delete issues its delete request against a
\* service that computes each page from the current associations, no trial
\* is still associated and every trial associated at the start has had a
\* disassociate request.
C7_NothingAssociatedAtDelete ==
    (service \in {"offset", "cursor"} /\ Forced /\ pc \in {"delete", "done"}) =>
        /\ assoc = {}
        /\ assoc0 \subseteq {calls[k].trial : k \in DisIdx}

\* C8: an update request carries only fields of the update allow-list,
\* whatever attributes are set on the instance, and a delete request
\* carries only trial_component_name.
C8_AllowList ==
    {"trial_component_name", "display_name", "status", "start_time", "end_time",
     "parameters", "input_artifacts", "output_artifacts", "parameters_to_remove",
     "input_artifacts_to_remove", "output_artifacts_to_remove"}

C8_OnlyAllowListedFieldsSent ==
    /\ \A k \in Idx("update_trial_component") :
          /\ calls[k].payload \subseteq C8_AllowList
          /\ calls[k].payload \cap
               {"source", "metrics", "tags", "creation_time", "trial_component_arn"} = {}
    /\ \A k \in DelIdx : calls[k].payload \subseteq {"trial_component_name"}

C8_Witness ==
    \E k \in Idx("update_trial_component") :
        /\ calls[k].err = "none"
        /\ {"tags", "display_name"} \subseteq calls[k].self
        /\ calls[k].payload = {"trial_component_name", "display_name"}
        /\ DelIdx # {}

\* C9 as claimed: the first list_trials call carries no NextToken, every
\* later one carries the NextToken of the response before it, whatever the
\* token, and every list and disassociate call names this component.
C9_TokenPassedOn ==
    /\ \A k \in ListIdx :
          IF \A m \in ListIdx : k <= m
            THEN calls[k].token = None
            ELSE \E m \in ListIdx :
                    /\ m < k
                    /\ \A n \in ListIdx : n < k => n <= m
                    /\ calls[k].token = calls[m].resp.NextToken
    /\ \A k \in ListIdx \cup DisIdx : calls[k].name = SelfName

\* C10 as claimed, its part a finite run decides: after its first
\* list_trials call a forced delete never lists from the first page again,
\* that is, never sends a list_trials call without NextToken.
C10_NeverListsFirstPageAgain ==
    \A k \in ListIdx : \A m \in ListIdx :
        m < k => calls[k].token # None

====
